---- MODULE Spec2Model ----
(***************************************************************************)
(* Authorization core of the koppling multi-tenant application:            *)
(*   - route enforcement middleware (middleware.ts, wrapped by withAuth),   *)
(*   - request context helpers (auth-context.ts),                          *)
(*   - credential verification and token claims (auth.ts),                 *)
(*   - tenant isolation guard (rbac.ts).                                   *)
(***************************************************************************)
EXTENDS Integers, Sequences, FiniteSets, TLC

VARIABLES
    users,      \* account store: email -> account record or NoUser
    tenants,    \* tenant store: tenant id -> status
    signin,     \* the last sign-in attempt and its outcome
    tokens,     \* claims of the session tokens issued by sign-in so far
    req,        \* the last inbound request
    resp,       \* what the middleware layer answered to it
    ctx,        \* what getAuthContext() returned to the handler, if it ran
    access,     \* the last tenant isolation check of a handler
    now,        \* the clock, in seconds
    first,      \* the answer the request got when its token was fresh
    onboarding, \* tenant onboarding records: the tenant ids that have one
    signups,    \* the sign-up requests in progress, one per client
    guard,      \* the last call of a require* helper of a handler
    perm        \* the last permission query of a handler

vars == <<users, tenants, signin, tokens, req, resp, ctx, access,
          now, first, onboarding, signups, guard, perm>>

\* the state of the session clock, of sign-up and of the handler helpers
sessionVars == <<now, first>>
signupVars == <<onboarding, signups>>
helperVars == <<guard, perm>>

----------------------------------------------------------------------------
(* Bounds and value domains *)

NumUsers == 3
NumTenants == 2

UserNames == <<"u1", "u2", "u3", "u4", "u5", "u6">>
TenantNames == <<"T1", "T2", "T3", "T4", "T5", "T6">>

UserIds == { UserNames[i] : i \in 1..NumUsers }
TenantIds == { TenantNames[i] : i \in 1..NumTenants }

\* JavaScript null (also: a header that is absent, headers.get() -> null)
Null == "<null>"

Roles == {"platform_admin", "tenant_owner", "tenant_admin", "tenant_viewer"}

\* JavaScript falsiness of a string-or-null value: !v
Falsy(v) == v = Null \/ v = ""

\* String.prototype.startsWith
StartsWith(s, prefix) ==
    /\ Len(s) >= Len(prefix)
    /\ SubSeq(s, 1, Len(prefix)) = prefix

\* the string contains the character c
Contains(s, c) == \E i \in 1..Len(s) : SubSeq(s, i, i) = c

----------------------------------------------------------------------------
(* middleware.ts *)

PUBLIC_ROUTES ==
    {"/", "/auth/signin", "/auth/signup", "/auth/error", "/blog", "/changelog",
     "/api/auth"}

ADMIN_ROUTES == {"/admin"}

isPublicRoute(pathname) == \E route \in PUBLIC_ROUTES : StartsWith(pathname, route)

isAdminRoute(pathname) == \E route \in ADMIN_ROUTES : StartsWith(pathname, route)

\* the pathname starts with /dashboard or /tenant (the test of line 62)
isTenantRoute(pathname) ==
    StartsWith(pathname, "/dashboard") \/ StartsWith(pathname, "/tenant")

\* config.matcher: '/((?!_next/static|_next/image|favicon.ico|.*\..*|api/auth).*)'
\* the middleware runs only on the paths this (anchored) pattern matches
matcher(pathname) ==
    LET rest == SubSeq(pathname, 2, Len(pathname))
    IN  /\ StartsWith(pathname, "/")
        /\ ~StartsWith(rest, "_next/static")
        /\ ~StartsWith(rest, "_next/image")
        \* favicon.ico, where the pattern's '.' stands for any one character
        /\ ~(StartsWith(rest, "favicon") /\ Len(rest) >= 11
                /\ SubSeq(rest, 9, 11) = "ico")
        /\ ~Contains(rest, ".")
        /\ ~StartsWith(rest, "api/auth")

HeaderNames == {"x-user-id", "x-tenant-id", "x-user-role"}

NoToken == [null |-> TRUE]
NoContext == [null |-> TRUE]

\* NextResponse.next(): the request goes on to its handler with these headers
NextResponse(headers, injected) ==
    [kind |-> "next", location |-> Null, callbackUrl |-> Null,
     headers |-> headers, injected |-> injected]

\* NextResponse.redirect(url)
Redirect(location, callbackUrl, headers) ==
    [kind |-> "redirect", location |-> location, callbackUrl |-> callbackUrl,
     headers |-> headers, injected |-> FALSE]

\* lines 68-74: new Headers(req.headers), then the three set() calls
injectHeaders(token, headers) ==
    LET withTenant ==
            IF ~Falsy(token.tenantId)
            THEN [headers EXCEPT !["x-tenant-id"] = token.tenantId]
            ELSE headers
    IN  [withTenant EXCEPT !["x-user-id"] = token.id,
                           !["x-user-role"] = token.role]

\* function middleware(req), lines 40-81
middleware(token, pathname, headers) ==
    IF isPublicRoute(pathname)
    THEN NextResponse(headers, FALSE)
    ELSE IF token = NoToken
    THEN Redirect("/auth/signin", pathname, headers)
    ELSE IF isAdminRoute(pathname) /\ token.role # "platform_admin"
    THEN Redirect("/dashboard", Null, headers)
    ELSE IF /\ isTenantRoute(pathname)
            /\ token.role # "platform_admin"
            /\ Falsy(token.tenantId)
    THEN Redirect("/auth/error?error=AccessDenied", Null, headers)
    ELSE NextResponse(injectHeaders(token, headers), TRUE)

\* callbacks.authorized of the withAuth options
authorized(token) == token # NoToken

\* The withAuth options carry no `pages` entry, so an unauthorized request is
\* sent to the library's sign-in endpoint, with the requested path as
\* callbackUrl.
withAuthSignInPage == "/api/auth/signin"

\* withAuth(middleware, options): the authorized callback decides first; the
\* wrapped middleware function runs only for an authorized request
withAuth(token, pathname, headers) ==
    IF ~authorized(token)
    THEN Redirect(withAuthSignInPage, pathname, headers)
    ELSE middleware(token, pathname, headers)

\* the session cookie of a request: none, or a token whose signature and
\* expiry either verify or do not; an unverifiable token decodes to null
NoCookie == [null |-> TRUE]

\* the token is decoded without consulting the account store
getToken_RechecksStore(cookie) ==
    IF cookie # NoCookie /\ cookie.valid
          /\ \E e \in DOMAIN users :
                /\ users[e] # [null |-> TRUE]
                /\ users[e].id = cookie.claims.id
                /\ users[e].status = "active"
                /\ users[e].role = cookie.claims.role
                /\ users[e].tenantId = cookie.claims.tenantId
    THEN cookie.claims
    ELSE [null |-> TRUE]

getToken(cookie) ==
    IF cookie # NoCookie /\ cookie.valid THEN cookie.claims ELSE NoToken

\* the middleware layer as the framework runs it on one request
handleRequest(cookie, pathname, headers) ==
    IF matcher(pathname)
    THEN withAuth(getToken(cookie), pathname, headers)
    ELSE NextResponse(headers, FALSE)

----------------------------------------------------------------------------
(* auth-context.ts *)

\* getAuthContext(), lines 22-38
getAuthContext(headers) ==
    IF Falsy(headers["x-user-id"]) \/ Falsy(headers["x-user-role"])
    THEN NoContext
    ELSE [userId |-> headers["x-user-id"],
          tenantId |-> headers["x-tenant-id"],
          role |-> headers["x-user-role"]]

\* callbacks.session: the token's claims copied onto session.user
session(token) ==
    [user |-> [id |-> token.id, role |-> token.role, tenantId |-> token.tenantId]]

NoSession == [null |-> TRUE]

\* getServerSession(authOptions): the session of the request's cookie, if its
\* token verifies
getServerSession(cookie) ==
    IF getToken(cookie) = NoToken THEN NoSession ELSE session(getToken(cookie))

\* getAuthContextFromSession(), lines 43-55
getAuthContextFromSession(cookie) ==
    LET s == getServerSession(cookie) IN
    IF s = NoSession THEN NoContext
    ELSE [userId |-> s.user.id, tenantId |-> s.user.tenantId, role |-> s.user.role]

----------------------------------------------------------------------------
(* Requests *)

\* the claims a token can carry (interface JWT: id, role, tenantId | null)
TokenClaims == [id : UserIds, role : Roles, tenantId : TenantIds \cup {Null}]

Cookies == {NoCookie} \cup [valid : BOOLEAN, claims : TokenClaims]

\* request paths; every URL pathname starts with "/"
Paths ==
    {"/", "/auth/signin", "/blog", "/changelog", "/api/auth/session",
     "/dashboard", "/tenant/orders", "/tenant/a.b", "/admin", "/admin/users",
     "/api/example", "/settings"}

\* the identity headers a client can put on its own request
ClientHeaders ==
    { [h \in HeaderNames |->
          CASE h = "x-user-id" -> u
            [] h = "x-tenant-id" -> t
            [] OTHER -> r] :
      u \in UserIds \cup {Null},
      t \in TenantIds \cup {Null, ""},
      r \in Roles \cup {Null} }

NoRequest == [null |-> TRUE]
NoResponse == [null |-> TRUE]

Requests == [cookie : Cookies, pathname : Paths, headers : ClientHeaders]

\* one request through the middleware layer and, when it is let through, into
\* a handler that calls getAuthContext()
Serve ==
    /\ req # NoRequest
    /\ resp = NoResponse
    /\ resp' = handleRequest(req.cookie, req.pathname, req.headers)
    /\ ctx' = IF resp'.kind = "next" THEN getAuthContext(resp'.headers)
              ELSE NoContext
    /\ first' = IF first = NoResponse
                THEN [resp |-> resp', ctx |-> ctx',
                      authenticated |-> getToken(req.cookie) # NoToken]
                ELSE first
    /\ UNCHANGED <<users, tenants, signin, tokens, req, access>>
    /\ UNCHANGED <<now, signupVars, helperVars>>

NoSignIn == [null |-> TRUE]
NoAccess == [null |-> TRUE]
NoUser == [null |-> TRUE]
NoGuard == [null |-> TRUE]
NoQuery == [null |-> TRUE]

\* no sign-up in progress, no helper called, the clock at the start
NoSignups == [c \in {} |-> NoRequest]

SessionIdle == now = 0 /\ first = NoResponse
SignupIdle == onboarding = {} /\ signups = NoSignups
HelpersIdle == guard = NoGuard /\ perm = NoQuery

\* a request with any cookie, path and identity headers a client can present
MwInit ==
    /\ users = [e \in {} |-> NoUser]
    /\ tenants = [t \in TenantIds |-> "active"]
    /\ signin = NoSignIn
    /\ tokens = {}
    /\ req \in Requests
    /\ resp = NoResponse
    /\ ctx = NoContext
    /\ access = NoAccess
    /\ SessionIdle /\ SignupIdle /\ HelpersIdle

MwSpec == MwInit /\ [][Serve]_vars

----------------------------------------------------------------------------
(* auth.ts: the credentials provider and the token callbacks *)

Emails == {"a@x.io", "b@x.io"}

Passwords == {"pw1", "pw2"}

UserStatuses == {"active", "inactive"}
TenantStatuses == {"active", "suspended"}

\* bcrypt, as the black box hash(password) -> digest
hashPassword(password) == "bcrypt$" \o password

\* bcrypt.compare(password, digest)
bcryptCompare(password, digest) == digest = hashPassword(password)

AccountId(email) == IF email = "a@x.io" THEN UserNames[1] ELSE UserNames[2]
AccountName(email) == IF email = "a@x.io" THEN "Ann" ELSE "Bob"

\* the rows the user table can hold for one email: none, or one account
AccountsOf(email) ==
    {NoUser} \cup
    [id : {AccountId(email)}, email : {email}, name : {AccountName(email)},
     passwordHash : {Null, hashPassword("pw1")},
     role : Roles, status : UserStatuses, tenantId : TenantIds \cup {Null}]

UserStores ==
    { [e \in Emails |-> IF e = "a@x.io" THEN a ELSE b] :
      a \in AccountsOf("a@x.io"), b \in AccountsOf("b@x.io") }

TenantStores == [TenantIds -> TenantStatuses]

\* prisma.user.findUnique({ where: { email } })
findUnique(store, email) ==
    IF email \in DOMAIN store THEN store[email] ELSE NoUser

\* the tenant status check answering "active" for every account
tenantStatusOf_AlwaysActive(tenantStore, user) == "active"

\* an account without tenant has no tenant status
tenantStatusOf_NoTenantIsActive(tenantStore, user) ==
    IF user.tenantId = Null THEN "active" ELSE tenantStore[user.tenantId]

\* user.tenant?.status of the included tenant relation
tenantStatusOf(tenantStore, user) ==
    IF user.tenantId = Null THEN Null ELSE tenantStore[user.tenantId]

Failure(message) == [ok |-> FALSE, error |-> message]
Success(user) == [ok |-> TRUE, user |-> user]

\* authorize with the account-status check moved ahead of the password check
authorize_StatusBeforePassword(store, tenantStore, email, password) ==
    IF Falsy(email) \/ Falsy(password)
    THEN Failure("Missing credentials")
    ELSE LET user == findUnique(store, email)
         IN  IF user = NoUser \/ Falsy(user.passwordHash)
             THEN Failure("Invalid credentials")
             ELSE IF user.status # "active"
             THEN Failure("Account is not active")
             ELSE IF ~bcryptCompare(password, user.passwordHash)
             THEN Failure("Invalid credentials")
             ELSE IF /\ user.role # "platform_admin"
                     /\ tenantStatusOf(tenantStore, user) # "active"
             THEN Failure("Account is not active")
             ELSE Success([id |-> user.id, email |-> user.email,
                           name |-> user.name, role |-> user.role,
                           tenantId |-> user.tenantId])

\* authorize(credentials), lines 156-195
authorize(store, tenantStore, email, password) ==
    IF Falsy(email) \/ Falsy(password)
    THEN Failure("Missing credentials")
    ELSE LET user == findUnique(store, email)
         IN  IF user = NoUser \/ Falsy(user.passwordHash)
             THEN Failure("Invalid credentials")
             ELSE IF ~bcryptCompare(password, user.passwordHash)
             THEN Failure("Invalid credentials")
             ELSE IF user.status # "active"
             THEN Failure("Account is not active")
             ELSE IF /\ user.role # "platform_admin"
                     /\ tenantStatusOf(tenantStore, user) # "active"
             THEN Failure("Account is not active")
             ELSE Success([id |-> user.id, email |-> user.email,
                           name |-> user.name, role |-> user.role,
                           tenantId |-> user.tenantId])

\* callbacks.jwt at sign-in: the claims copied from the authorized user
jwt(user) == [id |-> user.id, role |-> user.role, tenantId |-> user.tenantId]

\* session.maxAge, in seconds
maxAge == 30 * 24 * 60 * 60

\* the signed token: the claims, stamped with the time of issue and the
\* expiry maxAge later
encode(claims, time) == [claims |-> claims, iat |-> time, exp |-> time + maxAge]

Pending == [pending |-> TRUE]

\* the credentials a client can submit
SignInAttempts ==
    [email : Emails \cup {""}, password : Passwords \cup {""}, result : {Pending}]

\* one sign-in: authorize, and on success a token with the user's claims
SignIn ==
    /\ signin # NoSignIn
    /\ signin.result = Pending
    /\ LET result == authorize(users, tenants, signin.email, signin.password)
       IN  /\ signin' = [signin EXCEPT !.result = result]
           /\ tokens' = IF result.ok THEN tokens \cup {encode(jwt(result.user), now)}
                      ELSE tokens
    /\ UNCHANGED <<users, tenants, req, resp, ctx, access>>
    /\ UNCHANGED <<sessionVars, signupVars, helperVars>>

\* any account store, and any credentials submitted to it
AuthInit ==
    /\ users \in UserStores
    /\ tenants \in TenantStores
    /\ signin \in SignInAttempts
    /\ tokens = {}
    /\ req = NoRequest
    /\ resp = NoResponse
    /\ ctx = NoContext
    /\ access = NoAccess
    /\ SessionIdle /\ SignupIdle /\ HelpersIdle

AuthSpec == AuthInit /\ [][SignIn]_vars

----------------------------------------------------------------------------
(* A session: sign-in, then requests that carry the issued token while the *)
(* clock runs and the account store changes                                *)

\* the token is rejected once it has expired
verify_NeverExpires(token, time) == TRUE

\* verification of a session token at a given time: the signature is the
\* issuer's, and the expiry stamped at issue has not been reached
verify(token, time) == time < token.exp

\* the instants the clock visits: around the expiry of a token issued at 0
\* and of one issued an hour later
TimePoints ==
    {0, 3600, maxAge - 3600, maxAge + 1, maxAge + 3601}

SessionPaths == {"/dashboard", "/tenant/orders", "/admin/users", "/api/example"}

NoHeaders == [h \in HeaderNames |-> Null]

\* identity headers a client forges for another user
ForgedHeaders ==
    [h \in HeaderNames |->
        CASE h = "x-user-id" -> UserNames[2]
          [] h = "x-tenant-id" -> TenantNames[2]
          [] OTHER -> "platform_admin"]

SessionHeaders == {NoHeaders, ForgedHeaders}

\* the seeded account: any role, with or without a tenant
SeedStores ==
    { [e \in Emails |-> IF e = "a@x.io" THEN a ELSE NoUser] :
      a \in { u \in AccountsOf("a@x.io") :
                /\ u # NoUser
                /\ u.passwordHash # Null
                /\ u.status = "active"
                /\ u.tenantId \in {Null, TenantNames[1]} } }

\* no request is waiting for its answer
NoneInFlight == req = NoRequest \/ resp # NoResponse

\* the client sends a request with the token it was issued; once it has
\* sent one, it repeats the same request
Send ==
    /\ NoneInFlight
    /\ \E t \in tokens :
       \E pathname \in SessionPaths, headers \in SessionHeaders :
          /\ req # NoRequest => pathname = req.pathname /\ headers = req.headers
          /\ req' = [cookie |-> [valid |-> verify(t, now), claims |-> t.claims,
                                 iat |-> t.iat],
                     pathname |-> pathname, headers |-> headers, time |-> now]
    /\ resp' = NoResponse
    /\ ctx' = NoContext
    /\ UNCHANGED <<users, tenants, signin, tokens, access>>
    /\ UNCHANGED <<sessionVars, signupVars, helperVars>>

\* time passes
Tick ==
    /\ NoneInFlight
    /\ \E t \in TimePoints : t > now /\ now' = t
    /\ UNCHANGED <<users, tenants, signin, tokens, req, resp, ctx, access>>
    /\ UNCHANGED <<first, signupVars, helperVars>>

\* the account store changes after the token was first used: the account is
\* deactivated, its role or tenant is changed, or a tenant is suspended
ChangeAccount(email) ==
    /\ first # NoResponse
    /\ users[email] # NoUser
    /\ \E status \in UserStatuses, role \in Roles, tenantId \in TenantIds \cup {Null} :
          /\ \/ (status = "inactive" /\ role = users[email].role
                    /\ tenantId = users[email].tenantId)
             \/ (status = users[email].status /\ tenantId = users[email].tenantId)
             \/ (status = users[email].status /\ role = users[email].role)
          /\ users' = [users EXCEPT ![email] =
                          [@ EXCEPT !.status = status, !.role = role,
                                    !.tenantId = tenantId]]
    /\ users' # users
    /\ UNCHANGED <<tenants, signin, tokens, req, resp, ctx, access>>
    /\ UNCHANGED <<sessionVars, signupVars, helperVars>>

SuspendTenant(tenantId) ==
    /\ first # NoResponse
    /\ tenants[tenantId] = "active"
    /\ tenants' = [tenants EXCEPT ![tenantId] = "suspended"]
    /\ UNCHANGED <<users, signin, tokens, req, resp, ctx, access>>
    /\ UNCHANGED <<sessionVars, signupVars, helperVars>>

StoreChange ==
    \/ \E email \in Emails : ChangeAccount(email)
    \/ \E tenantId \in TenantIds : SuspendTenant(tenantId)

\* the seeded account submits its email and a password
SessionInit ==
    /\ users \in SeedStores
    /\ tenants = [t \in TenantIds |-> "active"]
    /\ signin \in [email : {"a@x.io"}, password : Passwords, result : {Pending}]
    /\ tokens = {}
    /\ req = NoRequest
    /\ resp = NoResponse
    /\ ctx = NoContext
    /\ access = NoAccess
    /\ SessionIdle /\ SignupIdle /\ HelpersIdle

SessionNext == SignIn \/ Send \/ Serve \/ Tick \/ StoreChange

SessionSpec == SessionInit /\ [][SessionNext]_vars

----------------------------------------------------------------------------
(* rbac.ts: the tenant isolation guard *)

isPlatformAdmin(role) == role = "platform_admin"

\* the guard without the platform_admin bypass
canAccessTenant_NoAdminBypass(userRole, userTenantId, targetTenantId) ==
    userTenantId = targetTenantId

\* canAccessTenant(userRole, userTenantId, targetTenantId), lines 404-410
canAccessTenant(userRole, userTenantId, targetTenantId) ==
    IF isPlatformAdmin(userRole) THEN TRUE ELSE userTenantId = targetTenantId

\* the contexts getAuthContext() can hand to a handler
Contexts == [userId : UserIds, role : Roles, tenantId : TenantIds \cup {Null, ""}]

\* a handler asks whether its caller may touch the data of a target tenant
CheckAccess ==
    /\ access # NoAccess
    /\ ~access.checked
    /\ access' = [access EXCEPT
                    !.checked = TRUE,
                    !.allowed = canAccessTenant(ctx.role, ctx.tenantId,
                                                access.targetTenantId)]
    /\ UNCHANGED <<users, tenants, signin, tokens, req, resp, ctx>>
    /\ UNCHANGED <<sessionVars, signupVars, helperVars>>

\* any caller context, and any target tenant
AccessInit ==
    /\ users = [e \in {} |-> NoUser]
    /\ tenants = [t \in TenantIds |-> "active"]
    /\ signin = NoSignIn
    /\ tokens = {}
    /\ req = NoRequest
    /\ resp = NoResponse
    /\ ctx \in Contexts
    /\ access \in [targetTenantId : TenantIds, checked : {FALSE}, allowed : {FALSE}]
    /\ SessionIdle /\ SignupIdle /\ HelpersIdle

AccessSpec == AccessInit /\ [][CheckAccess]_vars

----------------------------------------------------------------------------
(* rbac.ts: permissions *)

\* enum Permission: member name -> value
Permission ==
    [ MANAGE_PLATFORM |-> "manage_platform",
      MANAGE_ALL_TENANTS |-> "manage_all_tenants",
      IMPERSONATE_USERS |-> "impersonate_users",
      MANAGE_PLATFORM_SETTINGS |-> "manage_platform_settings",
      MANAGE_BLOG |-> "manage_blog",
      MANAGE_CHANGELOG |-> "manage_changelog",
      MANAGE_TENANT |-> "manage_tenant",
      MANAGE_TENANT_USERS |-> "manage_tenant_users",
      MANAGE_INTEGRATIONS |-> "manage_integrations",
      MANAGE_SYNC_SETTINGS |-> "manage_sync_settings",
      MANAGE_BILLING |-> "manage_billing",
      VIEW_ORDERS |-> "view_orders",
      VIEW_PRODUCTS |-> "view_products",
      MANAGE_ORDERS |-> "manage_orders",
      MANAGE_PRODUCTS |-> "manage_products",
      TRIGGER_SYNC |-> "trigger_sync",
      VIEW_SYNC_HISTORY |-> "view_sync_history",
      ROLLBACK_SYNC |-> "rollback_sync",
      VIEW_AUDIT_LOG |-> "view_audit_log" ]

\* the values of the enum
Permissions == { Permission[name] : name \in DOMAIN Permission }

\* the elements of an array
Elements(array) == { array[i] : i \in DOMAIN array }

ROLE_PERMISSIONS ==
    [ platform_admin |->
        << Permission.MANAGE_PLATFORM,
           Permission.MANAGE_ALL_TENANTS,
           Permission.IMPERSONATE_USERS,
           Permission.MANAGE_PLATFORM_SETTINGS,
           Permission.MANAGE_BLOG,
           Permission.MANAGE_CHANGELOG,
           Permission.MANAGE_TENANT,
           Permission.MANAGE_TENANT_USERS,
           Permission.MANAGE_INTEGRATIONS,
           Permission.MANAGE_SYNC_SETTINGS,
           Permission.MANAGE_BILLING,
           Permission.VIEW_ORDERS,
           Permission.VIEW_PRODUCTS,
           Permission.MANAGE_ORDERS,
           Permission.MANAGE_PRODUCTS,
           Permission.TRIGGER_SYNC,
           Permission.VIEW_SYNC_HISTORY,
           Permission.ROLLBACK_SYNC,
           Permission.VIEW_AUDIT_LOG >>,
      tenant_owner |->
        << Permission.MANAGE_TENANT,
           Permission.MANAGE_TENANT_USERS,
           Permission.MANAGE_INTEGRATIONS,
           Permission.MANAGE_SYNC_SETTINGS,
           Permission.MANAGE_BILLING,
           Permission.VIEW_ORDERS,
           Permission.VIEW_PRODUCTS,
           Permission.MANAGE_ORDERS,
           Permission.MANAGE_PRODUCTS,
           Permission.TRIGGER_SYNC,
           Permission.VIEW_SYNC_HISTORY,
           Permission.ROLLBACK_SYNC,
           Permission.VIEW_AUDIT_LOG >>,
      tenant_admin |->
        << Permission.MANAGE_INTEGRATIONS,
           Permission.MANAGE_SYNC_SETTINGS,
           Permission.VIEW_ORDERS,
           Permission.VIEW_PRODUCTS,
           Permission.MANAGE_ORDERS,
           Permission.MANAGE_PRODUCTS,
           Permission.TRIGGER_SYNC,
           Permission.VIEW_SYNC_HISTORY,
           Permission.ROLLBACK_SYNC,
           Permission.VIEW_AUDIT_LOG >>,
      tenant_viewer |->
        << Permission.VIEW_ORDERS,
           Permission.VIEW_PRODUCTS,
           Permission.VIEW_SYNC_HISTORY,
           Permission.VIEW_AUDIT_LOG >> ]

\* only the listed permissions are held
hasPermission_ManagersHoldAll(role, permission) ==
    \/ role # "tenant_viewer"
    \/ \E i \in DOMAIN ROLE_PERMISSIONS[role] : ROLE_PERMISSIONS[role][i] = permission

\* permissions.includes(permission)
hasPermission(role, permission) ==
    \E i \in DOMAIN ROLE_PERMISSIONS[role] : ROLE_PERMISSIONS[role][i] = permission

hasAnyPermission(role, permissions) ==
    \E i \in DOMAIN permissions : hasPermission(role, permissions[i])

hasAllPermissions(role, permissions) ==
    \A i \in DOMAIN permissions : hasPermission(role, permissions[i])

\* the list is the role's own
getPermissions_WithBlog(role) == Append(ROLE_PERMISSIONS[role], Permission.MANAGE_BLOG)

getPermissions(role) == ROLE_PERMISSIONS[role]

canManageTenant(role) == hasPermission(role, Permission.MANAGE_TENANT)

canManageUsers(role) == hasPermission(role, Permission.MANAGE_TENANT_USERS)

isTenantOwner(role) == role = "tenant_owner"

\* a handler asks about a role and a permission
Queries == [role : Roles, permission : Permissions]

\* the answers of the permission functions to the query
CheckPermission ==
    /\ perm # NoQuery
    /\ ~perm.answered
    /\ perm' = [perm EXCEPT
                  !.answered = TRUE,
                  !.has = hasPermission(perm.role, perm.permission),
                  !.any = hasAnyPermission(perm.role,
                              <<perm.permission, Permission.MANAGE_PLATFORM>>),
                  !.all = hasAllPermissions(perm.role,
                              <<perm.permission, Permission.VIEW_ORDERS>>),
                  !.list = getPermissions(perm.role),
                  !.manageTenant = canManageTenant(perm.role),
                  !.manageUsers = canManageUsers(perm.role),
                  !.owner = isTenantOwner(perm.role)]
    /\ UNCHANGED <<users, tenants, signin, tokens, req, resp, ctx, access>>
    /\ UNCHANGED <<sessionVars, signupVars, guard>>

PermInit ==
    /\ users = [e \in Emails |-> NoUser]
    /\ tenants = [t \in TenantIds |-> "active"]
    /\ signin = NoSignIn
    /\ tokens = {}
    /\ req = NoRequest
    /\ resp = NoResponse
    /\ ctx = NoContext
    /\ access = NoAccess
    /\ SessionIdle /\ SignupIdle
    /\ guard = NoGuard
    /\ \E q \in Queries :
          perm = [role |-> q.role, permission |-> q.permission,
                  answered |-> FALSE, has |-> FALSE, any |-> FALSE, all |-> FALSE,
                  list |-> <<>>, manageTenant |-> FALSE, manageUsers |-> FALSE,
                  owner |-> FALSE]

PermSpec == PermInit /\ [][CheckPermission]_vars

----------------------------------------------------------------------------
(* auth-context.ts: the require* helpers *)

\* throw new Error(message)
Throw(message) == [ok |-> FALSE, error |-> message]

\* return context
Return(context) == [ok |-> TRUE, context |-> context]

requireAuth(headers) ==
    LET context == getAuthContext(headers) IN
    IF context = NoContext THEN Throw("Unauthorized") ELSE Return(context)

\* authentication is required before the tenant is looked at
requireTenant_TenantFirst(headers) ==
    IF Falsy(headers["x-tenant-id"])
    THEN Throw("No tenant associated with user")
    ELSE requireAuth(headers)

requireTenant(headers) ==
    LET auth == requireAuth(headers) IN
    IF ~auth.ok THEN auth
    ELSE IF Falsy(auth.context.tenantId)
         THEN Throw("No tenant associated with user")
         ELSE Return(auth.context)

\* authentication is required before the role is compared
requireRole_NoAuth(headers, roles) ==
    IF headers["x-user-role"] \notin roles
    THEN Throw("Insufficient permissions")
    ELSE requireAuth(headers)

\* roles: the allowed roles (rest parameter)
requireRole(headers, roles) ==
    LET auth == requireAuth(headers) IN
    IF ~auth.ok THEN auth
    ELSE IF auth.context.role \notin roles
         THEN Throw("Insufficient permissions")
         ELSE Return(auth.context)

requirePlatformAdmin(headers) == requireRole(headers, {"platform_admin"})

\* the identity headers a handler may find on its request: each one a value,
\* absent, or empty
GuardHeaders ==
    { [h \in HeaderNames |->
          CASE h = "x-user-id" -> u
            [] h = "x-tenant-id" -> t
            [] OTHER -> r] :
      u \in UserIds \cup {Null, ""},
      t \in TenantIds \cup {Null, ""},
      r \in Roles \cup {Null, ""} }

Helpers == {"requireAuth", "requireTenant", "requireRole", "requirePlatformAdmin"}

\* a handler about to call one of the helpers
GuardCalls ==
    { g \in [headers : GuardHeaders, helper : Helpers, roles : SUBSET Roles,
             outcome : {Pending}] :
        g.helper # "requireRole" => g.roles = {} }

Called(helper) == guard # NoGuard /\ guard.helper = helper /\ guard.outcome = Pending

GuardFrame ==
    /\ UNCHANGED <<users, tenants, signin, tokens, req, resp, ctx, access>>
    /\ UNCHANGED <<sessionVars, signupVars, perm>>

RequireAuth ==
    /\ Called("requireAuth")
    /\ guard' = [guard EXCEPT !.outcome = requireAuth(guard.headers)]
    /\ GuardFrame

RequireTenant ==
    /\ Called("requireTenant")
    /\ guard' = [guard EXCEPT !.outcome = requireTenant(guard.headers)]
    /\ GuardFrame

RequireRole ==
    /\ Called("requireRole")
    /\ guard' = [guard EXCEPT !.outcome = requireRole(guard.headers, guard.roles)]
    /\ GuardFrame

RequirePlatformAdmin ==
    /\ Called("requirePlatformAdmin")
    /\ guard' = [guard EXCEPT !.outcome = requirePlatformAdmin(guard.headers)]
    /\ GuardFrame

GuardInit ==
    /\ users = [e \in Emails |-> NoUser]
    /\ tenants = [t \in TenantIds |-> "active"]
    /\ signin = NoSignIn
    /\ tokens = {}
    /\ req = NoRequest
    /\ resp = NoResponse
    /\ ctx = NoContext
    /\ access = NoAccess
    /\ SessionIdle /\ SignupIdle
    /\ perm = NoQuery
    /\ guard \in GuardCalls

GuardNext == RequireAuth \/ RequireTenant \/ RequireRole \/ RequirePlatformAdmin

GuardSpec == GuardInit /\ [][GuardNext]_vars

----------------------------------------------------------------------------
(* api/auth/signup: POST, with concurrent clients *)

NumClients == 2

Clients == 1..NumClients

\* NextResponse.json(body, {status})
Json(status, message) == [status |-> status, message |-> message]

\* /^[^\s@]+@[^\s@]+\.[^\s@]+$/.test(email)
emailRegex(email) ==
    \E i \in 2..(Len(email) - 3) :
        /\ SubSeq(email, i, i) = "@"
        /\ \A k \in 1..Len(email) :
              /\ SubSeq(email, k, k) # " "
              /\ k # i => SubSeq(email, k, k) # "@"
        /\ \E j \in (i + 2)..(Len(email) - 1) : SubSeq(email, j, j) = "."

\* the emails a client may submit: registered or not, missing, malformed
SignupEmails == Emails \cup {"", "nobody", "c@x"}

\* the id the database generates for the tenant a client's request creates
NewTenantId(c) == TenantNames[c]

\* a tenant that signed up earlier, with its owner and onboarding record
SeedTenantId == TenantNames[NumClients + 1]

SeedOwner ==
    [id |-> AccountId("a@x.io"), email |-> "a@x.io", name |-> AccountName("a@x.io"),
     passwordHash |-> hashPassword("pw1"), role |-> "tenant_owner",
     status |-> "active", tenantId |-> SeedTenantId]

\* the rows a transaction has written and not yet committed
NoRow == [null |-> TRUE]
NoWrites == [tenant |-> NoRow, user |-> NoRow, onboarding |-> NoRow]

\* what an aborted transaction leaves in the database: its writes stay
rollback_KeepsWrites(tx) == tx

\* what an aborted transaction leaves in the database: nothing
rollback(tx) == NoWrites

\* the tables after the given writes are made durable
UsersWith(tx) ==
    IF tx.user = NoRow THEN users
    ELSE [e \in DOMAIN users |-> IF e = tx.user.email THEN tx.user ELSE users[e]]

TenantsWith(tx) ==
    IF tx.tenant = NoRow THEN tenants
    ELSE [t \in DOMAIN tenants \cup {tx.tenant.id} |->
            IF t = tx.tenant.id THEN tx.tenant.status ELSE tenants[t]]

OnboardingWith(tx) ==
    IF tx.onboarding = NoRow THEN onboarding
    ELSE onboarding \cup {tx.onboarding.tenantId}

SignupFrame ==
    /\ UNCHANGED <<signin, tokens, req, resp, ctx, access>>
    /\ UNCHANGED <<sessionVars, helperVars>>

At(c, pc) == c \in DOMAIN signups /\ signups[c].pc = pc

\* the handler returns the response
Respond(c, response) ==
    signups' = [signups EXCEPT ![c] = [@ EXCEPT !.pc = "done", !.tx = NoWrites,
                                                !.response = response]]

Goto(c, pc) == signups' = [signups EXCEPT ![c] = [@ EXCEPT !.pc = pc]]

\* the errors a statement of the transaction throws
UniqueViolation == "Unique constraint failed on the fields: (email)"
DatabaseError == "database error"

\* the catch block: the transaction is rolled back, the error is logged and
\* the answer is 500 whatever the error
Catch(c, error) ==
    LET left == rollback(signups[c].tx) IN
    /\ users' = UsersWith(left)
    /\ tenants' = TenantsWith(left)
    /\ onboarding' = OnboardingWith(left)
    /\ signups' = [signups EXCEPT ![c] =
          [@ EXCEPT !.pc = "done", !.tx = NoWrites, !.error = error,
                    !.response = Json(500, "An error occurred during registration")]]
    /\ SignupFrame

\* lines 31-55: required fields, email format, password strength
Validate(c) ==
    /\ At(c, "validate")
    /\ \E strong \in BOOLEAN :
          IF Falsy(signups[c].email)
          THEN Respond(c, Json(400, "All fields are required"))
          ELSE IF ~emailRegex(signups[c].email)
          THEN Respond(c, Json(400, "Invalid email address"))
          ELSE IF ~strong
          THEN Respond(c, Json(400, "password validation errors"))
          ELSE Goto(c, "check")
    /\ UNCHANGED <<users, tenants, onboarding>>
    /\ SignupFrame

\* lines 57-67
CheckExisting(c) ==
    /\ At(c, "check")
    /\ IF findUnique(users, signups[c].email) # NoUser
       THEN Respond(c, Json(409, "Email already registered"))
       ELSE Goto(c, "tenant")
    /\ UNCHANGED <<users, tenants, onboarding>>
    /\ SignupFrame

\* lines 75-80, inside the transaction
CreateTenant(c) ==
    /\ At(c, "tenant")
    /\ signups' = [signups EXCEPT ![c] =
          [@ EXCEPT !.pc = "user",
                    !.tx.tenant = [id |-> NewTenantId(c), status |-> "active"]]]
    /\ UNCHANGED <<users, tenants, onboarding>>
    /\ SignupFrame

\* another open transaction has written a user row with the same email
EmailLocked(c) ==
    \E d \in Clients \ {c} :
        /\ signups[d].tx.user # NoRow
        /\ signups[d].tx.user.email = signups[c].email

\* lines 83-92, inside the transaction; email is unique: the insert waits for
\* an open transaction that wrote the same email, and fails if the email is
\* in the table
CreateUser(c) ==
    /\ At(c, "user")
    /\ ~EmailLocked(c)
    /\ IF findUnique(users, signups[c].email) # NoUser
       THEN Catch(c, UniqueViolation)
       ELSE /\ signups' = [signups EXCEPT ![c] =
                  [@ EXCEPT !.pc = "onboarding",
                            !.tx.user =
                               [id |-> AccountId(signups[c].email),
                                email |-> signups[c].email,
                                name |-> AccountName(signups[c].email),
                                passwordHash |-> hashPassword(signups[c].password),
                                role |-> "tenant_owner",
                                status |-> "active",
                                tenantId |-> signups[c].tx.tenant.id]]]
            /\ UNCHANGED <<users, tenants, onboarding>>
            /\ SignupFrame

\* lines 95-103, inside the transaction
CreateOnboarding(c) ==
    /\ At(c, "onboarding")
    /\ signups' = [signups EXCEPT ![c] =
          [@ EXCEPT !.pc = "commit",
                    !.tx.onboarding = [tenantId |-> signups[c].tx.tenant.id]]]
    /\ UNCHANGED <<users, tenants, onboarding>>
    /\ SignupFrame

\* the transaction commits: its three rows appear together; lines 108-113
Commit(c) ==
    /\ At(c, "commit")
    /\ users' = UsersWith(signups[c].tx)
    /\ tenants' = TenantsWith(signups[c].tx)
    /\ onboarding' = OnboardingWith(signups[c].tx)
    /\ Respond(c, Json(200, "Account created successfully"))
    /\ SignupFrame

\* a statement of the transaction, or its commit, fails
TxError(c) ==
    /\ At(c, "tenant") \/ At(c, "user") \/ At(c, "onboarding") \/ At(c, "commit")
    /\ Catch(c, DatabaseError)

SignupInit ==
    /\ \/ /\ users = [e \in Emails |-> NoUser]
          /\ tenants = [t \in {} |-> "active"]
          /\ onboarding = {}
       \/ /\ users = [e \in Emails |-> IF e = "a@x.io" THEN SeedOwner ELSE NoUser]
          /\ tenants = [t \in {SeedTenantId} |-> "active"]
          /\ onboarding = {SeedTenantId}
    /\ signups \in [Clients -> [email : SignupEmails, password : {"pw1"},
                                pc : {"validate"}, tx : {NoWrites},
                                error : {Null}, response : {NoResponse}]]
    /\ signin = NoSignIn
    /\ tokens = {}
    /\ req = NoRequest
    /\ resp = NoResponse
    /\ ctx = NoContext
    /\ access = NoAccess
    /\ SessionIdle /\ HelpersIdle

SignupNext ==
    \E c \in Clients :
        \/ Validate(c)
        \/ CheckExisting(c)
        \/ CreateTenant(c)
        \/ CreateUser(c)
        \/ CreateOnboarding(c)
        \/ Commit(c)
        \/ TxError(c)

SignupSpec == SignupInit /\ [][SignupNext]_vars

----------------------------------------------------------------------------
(* The whole model: every operation, from any of the starting points *)

Init ==
    \/ MwInit \/ AuthInit \/ AccessInit
    \/ SessionInit \/ PermInit \/ GuardInit \/ SignupInit

Next ==
    \/ Serve \/ SignIn \/ CheckAccess
    \/ Send \/ Tick \/ StoreChange
    \/ CheckPermission
    \/ GuardNext
    \/ SignupNext

Spec == Init /\ [][Next]_vars

----------------------------------------------------------------------------
(* Vocabulary of the route-enforcement properties *)

\* the path is the prefix itself or lies under it
UnderPrefix(pathname, prefix) ==
    pathname = prefix \/ StartsWith(pathname, prefix \o "/")

\* the documented public routes: the homepage, the /auth pages, /blog,
\* /changelog and the auth API
DocumentedPublic(pathname) ==
    \/ pathname = "/"
    \/ \E route \in PUBLIC_ROUTES \ {"/"} : UnderPrefix(pathname, route)

AdminPath(pathname) == UnderPrefix(pathname, "/admin")

TenantPath(pathname) ==
    UnderPrefix(pathname, "/dashboard") \/ UnderPrefix(pathname, "/tenant")

\* the documented protected routes
ProtectedPath(pathname) ==
    AdminPath(pathname) \/ TenantPath(pathname) \/ pathname = "/api/example"

Served == req # NoRequest /\ resp # NoResponse

\* the request carries a token that verifies
Authenticated == req # NoRequest /\ getToken(req.cookie) # NoToken

\* the handler of the request ran
ReachedHandler == Served /\ resp.kind = "next"

SignInPages == {"/auth/signin", withAuthSignInPage}

RedirectedTo(location) == Served /\ resp.kind = "redirect" /\ resp.location = location

\* C1: on a protected route the context a handler reads from the request
\* metadata is the identity of the verified token, whatever identity headers
\* the client sent.
C1_ContextIsTokenIdentity ==
    (ReachedHandler /\ Authenticated /\ ProtectedPath(req.pathname))
        => ctx = [userId |-> getToken(req.cookie).id,
                  tenantId |-> getToken(req.cookie).tenantId,
                  role |-> getToken(req.cookie).role]

\* C2: a request without a valid token to a path outside the public set never
\* reaches a handler; it is redirected to the sign-in page with the requested
\* path as callbackUrl.
C2_UnauthenticatedRedirected ==
    (Served /\ ~Authenticated /\ ~DocumentedPublic(req.pathname))
        => /\ resp.kind = "redirect"
           /\ resp.location \in SignInPages
           /\ resp.callbackUrl = req.pathname

\* C3: a request to a public path is let through unchanged, without redirect
\* and without injected identity, whatever token it carries.
C3_PublicAlwaysAllowed ==
    (Served /\ DocumentedPublic(req.pathname))
        => /\ resp.kind = "next"
           /\ ~resp.injected
           /\ resp.headers = req.headers

\* C4: an authenticated tenant_owner, tenant_admin or tenant_viewer asking for
\* a path under /admin is redirected to /dashboard and never let through.
C4_AdminGateSoftDeny ==
    (Served /\ Authenticated /\ AdminPath(req.pathname)
        /\ getToken(req.cookie).role \in {"tenant_owner", "tenant_admin", "tenant_viewer"})
        => /\ RedirectedTo("/dashboard")
           /\ ~resp.injected

C6_GateOrderAndAdminBypass ==
    /\ (Served /\ Authenticated
            /\ (AdminPath(req.pathname) \/ TenantPath(req.pathname))
            /\ getToken(req.cookie).role = "platform_admin"
            /\ getToken(req.cookie).tenantId = Null)
        => /\ resp.kind = "next"
           /\ resp.injected
           /\ resp.headers["x-user-id"] = getToken(req.cookie).id
           /\ resp.headers["x-user-role"] = "platform_admin"
    /\ (Served /\ Authenticated /\ AdminPath(req.pathname)
            /\ getToken(req.cookie).role # "platform_admin"
            /\ getToken(req.cookie).tenantId = Null)
        => RedirectedTo("/dashboard")

\* C7: an authenticated request that the middleware lets through to a
\* protected route carries the token's id and role in x-user-id and
\* x-user-role, and no tenant identifier when the token has no tenant, even
\* if the client sent an x-tenant-id header.
C7_InjectedMetadata ==
    (ReachedHandler /\ Authenticated /\ ProtectedPath(req.pathname))
        => /\ resp.headers["x-user-id"] = getToken(req.cookie).id
           /\ resp.headers["x-user-role"] = getToken(req.cookie).role
           /\ (getToken(req.cookie).tenantId = Null
                  => Falsy(resp.headers["x-tenant-id"]))

----------------------------------------------------------------------------
(* Tenant isolation guard *)

AccessChecked == access # NoAccess /\ access.checked

\* C8: canAccessTenant is true for platform_admin whatever the two tenants
\* are (a null caller included); for every other role it is true when caller
\* and target are the same non-null tenant, false when they differ and false
\* when the caller tenant is null.
C8_CanAccessTenant ==
    AccessChecked =>
        /\ ctx.role = "platform_admin" => access.allowed
        /\ ctx.role # "platform_admin" =>
            /\ (ctx.tenantId = access.targetTenantId /\ ctx.tenantId # Null)
                  => access.allowed
            /\ ctx.tenantId # access.targetTenantId => ~access.allowed
            /\ ctx.tenantId = Null => ~access.allowed

\* a tenant_admin of one tenant was refused the data of another tenant
C8_Witness ==
    /\ AccessChecked
    /\ ctx.role = "tenant_admin"
    /\ ctx.tenantId \in TenantIds
    /\ access.targetTenantId \in TenantIds \ {ctx.tenantId}
    /\ ~access.allowed

----------------------------------------------------------------------------
(* Credential verification *)

SignInDone == signin # NoSignIn /\ signin.result # Pending

\* the account the submitted email belongs to, if any
Account == findUnique(users, signin.email)

\* both credentials were submitted
CredentialsGiven == ~Falsy(signin.email) /\ ~Falsy(signin.password)

\* the submitted password verifies against the account's digest
PasswordVerifies ==
    /\ Account # NoUser
    /\ Account.passwordHash # Null
    /\ bcryptCompare(signin.password, Account.passwordHash)

\* C9: a wrong password for a registered email and an email that belongs to
\* no account fail with the same "Invalid credentials" outcome, whatever the
\* status, role and tenant status of the account.
C9_SameFailureForUnknownAndWrong ==
    (SignInDone /\ CredentialsGiven /\ ~PasswordVerifies)
        => signin.result = Failure("Invalid credentials")

\* a wrong password was submitted for an inactive account of a suspended tenant
C9_Witness ==
    /\ SignInDone
    /\ CredentialsGiven
    /\ Account # NoUser
    /\ Account.passwordHash # Null
    /\ ~bcryptCompare(signin.password, Account.passwordHash)
    /\ Account.status = "inactive"
    /\ Account.tenantId # Null
    /\ tenants[Account.tenantId] = "suspended"
    /\ signin.result = Failure("Invalid credentials")

\* the conditions under which sign-in is to succeed
MaySignIn ==
    /\ PasswordVerifies
    /\ Account.status = "active"
    /\ \/ Account.role = "platform_admin"
       \/ /\ Account.tenantId # Null
          /\ tenants[Account.tenantId] = "active"

C10_Outcome ==
    SignInDone =>
        /\ signin.result.ok <=> MaySignIn
        /\ signin.result.ok =>
              signin.result.user =
                  [id |-> Account.id, email |-> Account.email,
                   name |-> Account.name, role |-> Account.role,
                   tenantId |-> Account.tenantId]

\* C10: authorize succeeds exactly when the account exists, has a digest the
\* password verifies against, is active, and is a platform_admin or belongs
\* to an active tenant; the identity returned is the stored account's, and
\* the account store is left unchanged.
C10_AuthorizeIffEligible ==
    /\ []C10_Outcome
    /\ [][users' = users /\ tenants' = tenants]_vars

\* a tenant_owner of an active tenant signed in
C10_Witness ==
    /\ SignInDone
    /\ signin.result.ok
    /\ Account.role = "tenant_owner"
    /\ Account.tenantId # Null
    /\ signin.result.user.id = Account.id

\* C11: sign-in never issues a token to an account that is not a
\* platform_admin and whose tenant is not active (with the right password the
\* attempt fails with "Account is not active"), while an active
\* platform_admin signs in whatever its tenant or that tenant's status is.
C11_NoTokenForInactiveTenant ==
    (SignInDone /\ Account # NoUser) =>
        /\ (/\ Account.role # "platform_admin"
            /\ (Account.tenantId = Null \/ tenants[Account.tenantId] # "active"))
            => /\ ~signin.result.ok
               /\ tokens = {}
               /\ PasswordVerifies /\ Account.status = "active"
                    => signin.result = Failure("Account is not active")
        /\ (/\ Account.role = "platform_admin"
            /\ Account.status = "active"
            /\ PasswordVerifies)
            => /\ signin.result.ok
               /\ tokens = {encode(jwt(Account), now)}

\* an active tenant_admin of a suspended tenant gave the right password and
\* was refused
C11_Witness ==
    /\ SignInDone
    /\ PasswordVerifies
    /\ Account.role = "tenant_admin"
    /\ Account.status = "active"
    /\ Account.tenantId # Null
    /\ tenants[Account.tenantId] = "suspended"
    /\ signin.result = Failure("Account is not active")
    /\ tokens = {}

----------------------------------------------------------------------------
(* Sessions *)

\* the request that was answered carried a token issued by sign-in
TokenPresented == Served /\ req.cookie # NoCookie /\ "iat" \in DOMAIN req.cookie

\* the presented token had not expired when the request was sent
TokenAccepted == TokenPresented /\ req.cookie.valid

Holder == users[signin.email]

C20_OwnerEndToEnd ==
    (/\ SignInDone
     /\ signin.result.ok
     /\ signin.result.user.role = "tenant_owner"
     /\ signin.result.user.tenantId = TenantNames[1])
    => /\ \E t \in TimePoints : tokens = {encode(jwt(signin.result.user), t)}
       /\ (TokenAccepted /\ TenantPath(req.pathname)) =>
             /\ resp.kind = "next"
             /\ resp.headers["x-tenant-id"] = TenantNames[1]
             /\ resp.headers["x-user-id"] = signin.result.user.id
             /\ resp.headers["x-user-role"] = "tenant_owner"
             /\ ctx = [userId |-> signin.result.user.id,
                       tenantId |-> TenantNames[1], role |-> "tenant_owner"]

----------------------------------------------------------------------------
(* Permissions *)

PermissionAnswered == perm # NoQuery /\ perm.answered

\* the permissions a role holds, by its list
Held(role) == Elements(ROLE_PERMISSIONS[role])

\* C14: the permission lists are nested, viewer within admin within owner
\* within platform_admin; MANAGE_TENANT_USERS and MANAGE_BILLING are the
\* owner's and not the admin's; and hasPermission(role, p) answers true exactly
\* when p is in getPermissions(role).
C14_NestedPermissions ==
    PermissionAnswered =>
        /\ perm.has <=> perm.permission \in Elements(perm.list)
        /\ perm.list = ROLE_PERMISSIONS[perm.role]
        /\ Held("tenant_viewer") \subseteq Held("tenant_admin")
        /\ Held("tenant_admin") \subseteq Held("tenant_owner")
        /\ Held("tenant_owner") \subseteq Held("platform_admin")
        /\ perm.permission \in {Permission.MANAGE_TENANT_USERS, Permission.MANAGE_BILLING}
              => /\ perm.role = "tenant_owner" => perm.has
                 /\ perm.role = "tenant_admin" => ~perm.has
        /\ perm.has /\ perm.role = "tenant_viewer"
              => hasPermission("tenant_admin", perm.permission)
        /\ perm.has /\ perm.role = "tenant_admin"
              => hasPermission("tenant_owner", perm.permission)
        /\ perm.has => hasPermission("platform_admin", perm.permission)

C14_Witness ==
    /\ PermissionAnswered
    /\ perm.role = "tenant_admin"
    /\ perm.permission = Permission.MANAGE_BILLING
    /\ ~perm.has

\* the permissions listed under "Tenant Management (owner/admin)"
TenantManagement ==
    { Permission.MANAGE_TENANT, Permission.MANAGE_TENANT_USERS,
      Permission.MANAGE_INTEGRATIONS, Permission.MANAGE_SYNC_SETTINGS,
      Permission.MANAGE_BILLING }

\* C15: what tenant_owner holds and tenant_admin lacks is exactly
\* MANAGE_TENANT_USERS and MANAGE_BILLING; every other tenant-management
\* permission, MANAGE_TENANT included, is held by both.
C15_OwnerAdminDifference ==
    PermissionAnswered =>
        /\ (/\ perm.role = "tenant_admin"
            /\ perm.permission \in TenantManagement)
           => (perm.has <=> perm.permission \notin
                  {Permission.MANAGE_TENANT_USERS, Permission.MANAGE_BILLING})
        /\ (/\ perm.role = "tenant_owner"
            /\ perm.permission \in TenantManagement)
           => perm.has
        /\ perm.role = "tenant_admin" => perm.manageTenant
        /\ Held("tenant_owner") \ Held("tenant_admin") =
              {Permission.MANAGE_TENANT_USERS, Permission.MANAGE_BILLING}

\* the permissions listed under "Platform Management (platform_admin only)"
PlatformManagement ==
    { Permission.MANAGE_PLATFORM, Permission.MANAGE_ALL_TENANTS,
      Permission.IMPERSONATE_USERS, Permission.MANAGE_PLATFORM_SETTINGS,
      Permission.MANAGE_BLOG, Permission.MANAGE_CHANGELOG }

\* C16: platform_admin holds every permission of the enumeration; the six
\* platform-management permissions are held by no other role; tenant_viewer
\* holds only VIEW_* permissions.
C16_PlatformAndViewer ==
    PermissionAnswered =>
        /\ perm.role = "platform_admin"
              => perm.has /\ Elements(perm.list) = Permissions
        /\ perm.role # "platform_admin"
              => /\ Elements(perm.list) \cap PlatformManagement = {}
                 /\ perm.permission \in PlatformManagement => ~perm.has
        /\ perm.role = "tenant_viewer"
              => \A name \in DOMAIN Permission :
                    Permission[name] \in Elements(perm.list) \/ (perm.has /\ Permission[name] = perm.permission)
                        => StartsWith(name, "VIEW_")

C16_Witness ==
    /\ PermissionAnswered
    /\ perm.role = "tenant_owner"
    /\ perm.permission = Permission.MANAGE_BLOG
    /\ ~perm.has
    /\ hasPermission("platform_admin", perm.permission)

----------------------------------------------------------------------------
(* Request guards *)

GuardDone(helper) ==
    guard # NoGuard /\ guard.helper = helper /\ guard.outcome # Pending

\* the request metadata carries a user id and a role
HasIdentity ==
    /\ guard.headers["x-user-id"] \notin {Null, ""}
    /\ guard.headers["x-user-role"] \notin {Null, ""}

\* the context the request metadata describes
MetadataContext ==
    [userId |-> guard.headers["x-user-id"],
     tenantId |-> guard.headers["x-tenant-id"],
     role |-> guard.headers["x-user-role"]]

\* C18: requireTenant() returns a context only when the metadata carries a
\* user id, a role and a non-null, non-empty tenant id; without user id or
\* role it fails with 'Unauthorized' whatever the tenant id is, and with both
\* but a null or empty tenant id it fails with 'No tenant associated with user'.
C18_RequireTenant ==
    GuardDone("requireTenant") =>
        /\ ~HasIdentity => guard.outcome = Throw("Unauthorized")
        /\ (HasIdentity /\ guard.headers["x-tenant-id"] \in {Null, ""})
              => guard.outcome = Throw("No tenant associated with user")
        /\ (HasIdentity /\ guard.headers["x-tenant-id"] \notin {Null, ""})
              => guard.outcome = Return(MetadataContext)
        /\ guard.outcome.ok => guard.outcome.context.tenantId \in TenantIds

C18_Witness ==
    /\ GuardDone("requireTenant")
    /\ guard.headers["x-user-id"] = Null
    /\ guard.headers["x-user-role"] = "tenant_owner"
    /\ guard.headers["x-tenant-id"] = ""
    /\ guard.outcome = Throw("Unauthorized")

\* C19: requireRole(roles...) returns the context exactly when the request
\* is authenticated and its role is one of the allowed roles; unauthenticated
\* it fails with 'Unauthorized', never 'Insufficient permissions';
\* authenticated with another role it fails with 'Insufficient permissions';
\* requirePlatformAdmin() succeeds only for role platform_admin.
C19_RequireRole ==
    /\ GuardDone("requireRole") =>
          /\ guard.outcome.ok <=>
                (HasIdentity /\ guard.headers["x-user-role"] \in guard.roles)
          /\ guard.outcome.ok => guard.outcome = Return(MetadataContext)
          /\ ~HasIdentity => guard.outcome = Throw("Unauthorized")
          /\ (HasIdentity /\ guard.headers["x-user-role"] \notin guard.roles)
                => guard.outcome = Throw("Insufficient permissions")
    /\ GuardDone("requirePlatformAdmin") =>
          /\ guard.outcome.ok <=>
                (HasIdentity /\ guard.headers["x-user-role"] = "platform_admin")
          /\ ~HasIdentity => guard.outcome = Throw("Unauthorized")
          /\ (HasIdentity /\ guard.headers["x-user-role"] # "platform_admin")
                => guard.outcome = Throw("Insufficient permissions")

C19_Witness ==
    /\ GuardDone("requireRole")
    /\ guard.headers["x-user-id"] = Null
    /\ guard.headers["x-user-role"] = "tenant_viewer"
    /\ guard.roles = {"tenant_owner", "tenant_admin"}
    /\ guard.outcome = Throw("Unauthorized")

----------------------------------------------------------------------------
(* Sign-up provisioning *)

TenantExists(t) == t \in DOMAIN tenants

OwnerExists(t) ==
    \E e \in DOMAIN users :
        /\ users[e] # NoUser
        /\ users[e].tenantId = t
        /\ users[e].role = "tenant_owner"

OnboardingExists(t) == t \in onboarding

Provisioned(t) == TenantExists(t) /\ OwnerExists(t) /\ OnboardingExists(t)

Absent(t) == ~TenantExists(t) /\ ~OwnerExists(t) /\ ~OnboardingExists(t)

SignupRunning == signups # NoSignups

\* C17: in every state of the database that another operation can read, a
\* tenant of a sign-up has its tenant row, its tenant_owner account and its
\* onboarding record, or none of the three; and a sign-up that failed, at any
\* of the three creation steps or earlier, has left nothing.
C17_AtomicProvisioning ==
    SignupRunning =>
        /\ \A c \in Clients :
              /\ Provisioned(NewTenantId(c)) \/ Absent(NewTenantId(c))
              /\ (signups[c].response # NoResponse /\ signups[c].response.status # 200)
                    => Absent(NewTenantId(c))
              /\ (signups[c].response # NoResponse /\ signups[c].response.status = 200)
                    => Provisioned(NewTenantId(c))
              /\ signups[c].pc # "done" => Absent(NewTenantId(c))
        /\ \A t \in DOMAIN tenants \cup onboarding : Provisioned(t)
        /\ \A e \in DOMAIN users :
              users[e] # NoUser => Provisioned(users[e].tenantId)

C17_Witness ==
    /\ SignupRunning
    /\ signups[1].response = Json(500, "An error occurred during registration")
    /\ signups[1].email = "b@x.io"
    /\ signups[2].email = "b@x.io"
    /\ signups[2].response = Json(200, "Account created successfully")
    /\ Absent(NewTenantId(1))
    /\ Provisioned(NewTenantId(2))

----------------------------------------------------------------------------
(* Order of the sign-in checks *)

\* the outcome the first unmet check gives, the checks taken in the order
\* account exists, digest present, password verifies, account active,
\* tenant active
FirstUnmetCheck ==
    IF Account = NoUser THEN "Invalid credentials"
    ELSE IF Account.passwordHash = Null THEN "Invalid credentials"
    ELSE IF ~bcryptCompare(signin.password, Account.passwordHash)
    THEN "Invalid credentials"
    ELSE IF Account.status # "active" THEN "Account is not active"
    ELSE IF /\ Account.role # "platform_admin"
            /\ (Account.tenantId = Null \/ tenants[Account.tenantId] # "active")
    THEN "Account is not active"
    ELSE "none"

\* C21: with both credentials given, the sign-in checks are applied in the
\* order account exists, digest present, password verifies, account active,
\* tenant active, and the first unmet one decides: a wrong password on an
\* inactive account or in a suspended tenant gives "Invalid credentials", and
\* "Account is not active" is given only after the password has verified.
C21_CheckOrder ==
    (SignInDone /\ CredentialsGiven) =>
        /\ FirstUnmetCheck = "none" <=> signin.result.ok
        /\ FirstUnmetCheck # "none" => signin.result = Failure(FirstUnmetCheck)
        /\ signin.result = Failure("Account is not active") => PasswordVerifies
        /\ (Account # NoUser /\ ~PasswordVerifies)
              => signin.result = Failure("Invalid credentials")

C21_Witness ==
    /\ SignInDone /\ CredentialsGiven
    /\ Account # NoUser
    /\ Account.passwordHash # Null
    /\ ~PasswordVerifies
    /\ Account.status = "inactive"
    /\ Account.role = "tenant_admin"
    /\ Account.tenantId # Null
    /\ tenants[Account.tenantId] = "suspended"
    /\ signin.result = Failure("Invalid credentials")

----------------------------------------------------------------------------
(* Route classification *)

\* C23: isPublicRoute holds only of the homepage, the /auth pages, /blog,
\* /changelog and /api/auth, and not of /dashboard, /tenant/*, /admin/* and
\* API routes such as /api/example; isAdminRoute holds exactly of the paths
\* under /admin; no admin or tenant-scoped path is classified public.
C23_RouteClassification ==
    Served =>
        /\ isPublicRoute(req.pathname) <=> DocumentedPublic(req.pathname)
        /\ ProtectedPath(req.pathname) => ~isPublicRoute(req.pathname)
        /\ isAdminRoute(req.pathname) <=> AdminPath(req.pathname)

----------------------------------------------------------------------------
(* The two context resolution paths *)

\* the context the claims of the request's token describe
ClaimsContext ==
    [userId |-> getToken(req.cookie).id,
     tenantId |-> getToken(req.cookie).tenantId,
     role |-> getToken(req.cookie).role]

\* C22: in the handler of a request the middleware let through with verified
\* claims c, getAuthContext() and getAuthContextFromSession() both return
\* {userId: c.id, tenantId: c.tenantId, role: c.role} (tenantId null in both
\* for a token without tenant); for an unauthenticated request both return null.
C22_ResolutionPathsAgree ==
    ReachedHandler =>
        /\ (Authenticated /\ ProtectedPath(req.pathname)) =>
              /\ ctx = ClaimsContext
              /\ getAuthContextFromSession(req.cookie) = ClaimsContext
        /\ ~Authenticated =>
              /\ ctx = NoContext
              /\ getAuthContextFromSession(req.cookie) = NoContext

----------------------------------------------------------------------------
(* Concurrent sign-ups for one email *)

SignupDone(c) == SignupRunning /\ signups[c].pc = "done"

\* the rows sign-up c has left in the database
LeftBehind(c) ==
    \/ TenantExists(NewTenantId(c))
    \/ OwnerExists(NewTenantId(c))
    \/ OnboardingExists(NewTenantId(c))

\* sign-up c found its email registered, at the check or at the insert
FoundRegistered(c) ==
    \/ signups[c].response = Json(409, "Email already registered")
    \/ signups[c].error = UniqueViolation

\* C24: under any interleaving of sign-ups there is at most one account per
\* email, and a sign-up for an email that is registered, also by a concurrent
\* sign-up that committed first, is answered 409 'Email already registered'
\* and creates no tenant, account or onboarding record.
C24_DuplicateEmailRejected ==
    SignupRunning =>
        /\ \A e \in DOMAIN users : users[e] # NoUser => users[e].email = e
        /\ \A c, d \in Clients :
              (/\ c # d
               /\ signups[c].email = signups[d].email
               /\ signups[c].response # NoResponse
               /\ signups[d].response # NoResponse)
              => ~(signups[c].response.status = 200 /\ signups[d].response.status = 200)
        /\ \A c \in Clients :
              (SignupDone(c) /\ FoundRegistered(c)) =>
                  /\ signups[c].response = Json(409, "Email already registered")
                  /\ ~LeftBehind(c)

----------------------------------------------------------------------------
(* Tenant-less accounts *)

\* the account store is still as it was when sign-in ran
StoreAsAtSignIn == first = NoResponse

AccessDenied ==
    /\ resp.kind = "redirect"
    /\ resp.location = "/auth/error?error=AccessDenied"

\* C25: sign-in never succeeds for an account that is not a platform_admin
\* and has no tenant (with the right password it fails with "Account is not
\* active"); so every token issued by sign-in to another role than
\* platform_admin carries a tenant id, and no request with such a token gets
\* the middleware's AccessDenied redirect.
C25_NoTenantlessToken ==
    /\ (/\ SignInDone /\ StoreAsAtSignIn
        /\ Account # NoUser
        /\ Account.role # "platform_admin"
        /\ Account.tenantId = Null)
       => /\ ~signin.result.ok
          /\ tokens = {}
          /\ (PasswordVerifies /\ Account.status = "active")
                => signin.result = Failure("Account is not active")
    /\ \A t \in tokens :
          t.claims.role # "platform_admin" => t.claims.tenantId \in TenantIds
    /\ TokenPresented =>
          /\ req.cookie.claims.role # "platform_admin"
                => req.cookie.claims.tenantId \in TenantIds
          /\ ~AccessDenied

C25_Witness ==
    /\ SignInDone
    /\ Account # NoUser
    /\ Account.role = "tenant_owner"
    /\ Account.tenantId = Null
    /\ Account.status = "active"
    /\ PasswordVerifies
    /\ signin.result = Failure("Account is not active")
    /\ tokens = {}

====
